---- MODULE Spec2Model ----
(***************************************************************************)
(* bulloak, Rust backend: scaffold (Translator -> Emitter) and check       *)
(* (check -> check_structural_match), driven by the `bulloak check`        *)
(* command.                                                                *)
(*                                                                         *)
(* Text is a sequence of one-character strings, so that the naming         *)
(* functions work on characters as the code does.  A Rust source file is   *)
(* its syn syntax tree (items, attributes) plus a flag saying whether      *)
(* syn::parse_file accepts the text.  Spans are left out of the AST and    *)
(* of the HIR: no modelled code reads them.                                *)
(***************************************************************************)
EXTENDS Naturals, Integers, Sequences, FiniteSets, TLC

VARIABLES
    tree,        \* the parsed .tree file (bulloak_syntax::Ast::Root)
    cfg,         \* Config { skip_helpers, format_descriptions }
    hir,         \* the HIR of the last scaffold run
    file,        \* <stem>_test.rs beside the tree file
    edits,       \* number of hand edits made to the file
    fix,         \* Check.fix of the last `bulloak check` run
    violations,  \* the violations the last check run collected
    exit_code,   \* process exit status of the last check run
    pc,          \* position of the session
    title,       \* naming session: the title given
    slug,        \* naming session: identifier computed from title
    unit,        \* naming session: the TestFunction of an Action so titled
    stdout,      \* Check.stdout of the last `bulloak check` run
    printed,     \* what the last check run wrote to standard output
    eprinted,    \* what the last check run wrote to standard error
    specs,       \* batch runs: the tree files given on the command line
    checked,     \* batch runs: how many of them the run has gone through
    ctx,         \* `check --fix`: the Context being repaired, with the loop's
                 \* fixable_count and the violations still to be fixed
    fixed_count  \* `check --fix`: the count of fixed issues

vars == <<tree, cfg, hir, file, edits, fix, violations, exit_code, pc, title, slug, unit,
          stdout, printed, eprinted, specs, checked, ctx, fixed_count>>

(***************************************************************************)
(* Bounds                                                                  *)
(***************************************************************************)
\* Largest number of Condition and Action nodes in a tree.
MaxNodes == 3
\* Largest number of hand edits made to the test file before it is checked.
MaxEdits == 1
\* Largest number of tokens a title of the naming session is made of.
MaxTokens == 2

(***************************************************************************)
(* Characters (Rust char methods used by the naming functions)             *)
(***************************************************************************)
Lowers == <<"a", "b", "c", "d", "e", "f", "g", "h", "i", "j", "k", "l", "m",
            "n", "o", "p", "q", "r", "s", "t", "u", "v", "w", "x", "y", "z">>
Uppers == <<"A", "B", "C", "D", "E", "F", "G", "H", "I", "J", "K", "L", "M",
            "N", "O", "P", "Q", "R", "S", "T", "U", "V", "W", "X", "Y", "Z">>
Digits == {"0", "1", "2", "3", "4", "5", "6", "7", "8", "9"}

is_uppercase(c) == \E i \in DOMAIN Uppers : Uppers[i] = c
is_lowercase(c) == \E i \in DOMAIN Lowers : Lowers[i] = c
is_alphanumeric(c) == is_uppercase(c) \/ is_lowercase(c) \/ c \in Digits
is_whitespace(c) == c \in {" ", "\t"}
to_ascii_lowercase(c) ==
    IF is_uppercase(c) THEN Lowers[CHOOSE i \in DOMAIN Uppers : Uppers[i] = c]
    ELSE c

\* str::to_lowercase
to_lowercase(s) == [i \in DOMAIN s |-> to_ascii_lowercase(s[i])]

\* str::trim
RECURSIVE trim_start(_)
trim_start(s) ==
    IF s # <<>> /\ is_whitespace(Head(s)) THEN trim_start(Tail(s)) ELSE s
RECURSIVE trim_end(_)
trim_end(s) ==
    IF s # <<>> /\ is_whitespace(s[Len(s)])
    THEN trim_end(SubSeq(s, 1, Len(s) - 1)) ELSE s
trim(s) == trim_end(trim_start(s))

\* str::starts_with
starts_with(s, p) == Len(s) >= Len(p) /\ SubSeq(s, 1, Len(p)) = p

\* str::trim_end_matches('_')
RECURSIVE trim_end_underscores(_)
trim_end_underscores(s) ==
    IF s # <<>> /\ s[Len(s)] = "_"
    THEN trim_end_underscores(SubSeq(s, 1, Len(s) - 1)) ELSE s

\* str::contains: the needle starts at some position of the haystack.
RECURSIVE contains_from(_, _, _)
contains_from(hay, needle, i) ==
    IF i + Len(needle) - 1 > Len(hay) THEN FALSE
    ELSE IF \A j \in 1..Len(needle) : hay[i + j - 1] = needle[j] THEN TRUE
    ELSE contains_from(hay, needle, i + 1)
contains(hay, needle) == contains_from(hay, needle, 1)

\* str::split_whitespace: the maximal runs of non-whitespace characters.
RECURSIVE split_from(_, _, _, _)
split_from(s, i, cur, words) ==
    IF i > Len(s) THEN (IF cur = <<>> THEN words ELSE Append(words, cur))
    ELSE IF is_whitespace(s[i])
         THEN split_from(s, i + 1, <<>>,
                         IF cur = <<>> THEN words ELSE Append(words, cur))
         ELSE split_from(s, i + 1, Append(cur, s[i]), words)
split_whitespace(s) == split_from(s, 1, <<>>, <<>>)

(***************************************************************************)
(* constants.rs                                                            *)
(***************************************************************************)
PANIC_KEYWORDS == <<
    <<"p", "a", "n", "i", "c">>,
    <<"p", "a", "n", "i", "c", "s">>,
    <<"r", "e", "v", "e", "r", "t">>,
    <<"r", "e", "v", "e", "r", "t", "s">>,
    <<"e", "r", "r", "o", "r">>,
    <<"e", "r", "r", "o", "r", "s">>,
    <<"f", "a", "i", "l">>,
    <<"f", "a", "i", "l", "s">> >>
CONTEXT_STRUCT_NAME == <<"T", "e", "s", "t", "C", "o", "n", "t", "e", "x", "t">>
TEST_MODULE_NAME == <<"t", "e", "s", "t", "s">>

(***************************************************************************)
(* utils.rs: to_snake_case (the checking path)                             *)
(***************************************************************************)
\* The strip_prefix(..).or_else(..) chain, in its order.
BDD_PREFIXES == <<
    <<"w", "h", "e", "n", " ">>, <<"W", "h", "e", "n", " ">>,
    <<"W", "H", "E", "N", " ">>,
    <<"g", "i", "v", "e", "n", " ">>, <<"G", "i", "v", "e", "n", " ">>,
    <<"G", "I", "V", "E", "N", " ">>,
    <<"i", "t", " ">>, <<"I", "t", " ">>, <<"I", "T", " ">> >>

\* The first prefix of the chain that matches is stripped, once.
strip_bdd_prefix(s) ==
    LET hits == {i \in DOMAIN BDD_PREFIXES : starts_with(s, BDD_PREFIXES[i])}
    IN  IF hits = {} THEN s
        ELSE LET first == CHOOSE i \in hits : \A j \in hits : i <= j
             IN  SubSeq(s, Len(BDD_PREFIXES[first]) + 1, Len(s))

RECURSIVE snake_loop(_, _, _, _)
snake_loop(s, i, result, prev_is_alphanumeric) ==
    IF i > Len(s) THEN result
    ELSE LET c == s[i] IN
         IF is_alphanumeric(c) THEN
            snake_loop(s, i + 1,
                Append(IF is_uppercase(c) /\ prev_is_alphanumeric /\ result # <<>>
                       THEN Append(result, "_") ELSE result,
                       to_ascii_lowercase(c)),
                TRUE)
         ELSE IF is_whitespace(c) \/ c = "-" THEN
            IF prev_is_alphanumeric
            THEN snake_loop(s, i + 1, Append(result, "_"), FALSE)
            ELSE snake_loop(s, i + 1, result, prev_is_alphanumeric)
         ELSE snake_loop(s, i + 1, result, FALSE)

to_snake_case(s) ==
    trim_end_underscores(snake_loop(strip_bdd_prefix(trim(s)), 1, <<>>, FALSE))

(***************************************************************************)
(* noir/src/utils.rs: to_snake_case (the Noir backend's naming)            *)
(***************************************************************************)
\* The trim_start_matches chain, in its order.
NOIR_PREFIXES == <<
    <<"w", "h", "e", "n", " ">>, <<"g", "i", "v", "e", "n", " ">>,
    <<"i", "t", " ">>,
    <<"W", "h", "e", "n", " ">>, <<"G", "i", "v", "e", "n", " ">>,
    <<"I", "t", " ">> >>

\* str::trim_start_matches: the prefix is removed as often as it matches.
RECURSIVE trim_start_matches(_, _)
trim_start_matches(s, p) ==
    IF starts_with(s, p) THEN trim_start_matches(SubSeq(s, Len(p) + 1, Len(s)), p)
    ELSE s

RECURSIVE noir_strip_prefixes(_, _)
noir_strip_prefixes(s, i) ==
    IF i > Len(NOIR_PREFIXES) THEN s
    ELSE noir_strip_prefixes(trim_start_matches(s, NOIR_PREFIXES[i]), i + 1)

\* The filter_map: letters and digits lower-cased, whitespace to '_', the
\* rest dropped.
RECURSIVE noir_filter_map(_)
noir_filter_map(s) ==
    IF s = <<>> THEN <<>>
    ELSE LET c == Head(s) IN
         IF is_alphanumeric(c) THEN <<to_ascii_lowercase(c)>> \o noir_filter_map(Tail(s))
         ELSE IF is_whitespace(c) THEN <<"_">> \o noir_filter_map(Tail(s))
         ELSE noir_filter_map(Tail(s))

\* split('_'), filter(not empty), join("_")
RECURSIVE noir_split_join(_, _, _)
noir_split_join(s, cur, out) ==
    IF s = <<>>
    THEN (IF cur = <<>> THEN out
          ELSE IF out = <<>> THEN cur ELSE out \o <<"_">> \o cur)
    ELSE IF Head(s) = "_"
         THEN noir_split_join(Tail(s), <<>>,
                 IF cur = <<>> THEN out
                 ELSE IF out = <<>> THEN cur ELSE out \o <<"_">> \o cur)
         ELSE noir_split_join(Tail(s), Append(cur, Head(s)), out)

noir_to_snake_case(t) ==
    noir_split_join(noir_filter_map(noir_strip_prefixes(trim(t), 1)), <<>>, <<>>)

(***************************************************************************)
(* bulloak_syntax::Ast, as the translator and the checker consume it       *)
(***************************************************************************)
Action(t, descs) == [kind |-> "Action", title |-> t, children |-> descs]
Condition(t, ch) == [kind |-> "Condition", title |-> t, children |-> ch]
Root(ch) == [kind |-> "Root", children |-> ch]

ConditionTitles == {
    <<"W", "h", "e", "n", " ", "x">>,
    <<"w", "h", "e", "n", " ", "X">>,
    <<"G", "i", "v", "e", "n", " ", "y">> }
ActionTitles == {
    <<"I", "t", " ", "d", "o", "e", "s", " ", "y", ".">>,
    <<"I", "t", " ", "s", "h", "o", "u", "l", "d", " ", "r", "e", "v", "e", "r",
      "t", " ", "w", "h", "e", "n", " ", "p", "a", "u", "s", "e", "d">>,
    <<"I", "t", " ", "f", "a", "i", "l", "u", "r", "e">> }

\* Well-formed trees: a Condition has at least one child, an Action has
\* only descriptions below it.
RECURSIVE TreesOfSize(_), ForestsOfSize(_)
TreesOfSize(k) ==
    IF k = 1 THEN {Action(t, <<>>) : t \in ActionTitles}
    ELSE {Condition(t, ch) : t \in ConditionTitles, ch \in ForestsOfSize(k - 1)}
ForestsOfSize(n) ==
    IF n = 0 THEN {<<>>}
    ELSE UNION {{<<nd>> \o rest : nd \in TreesOfSize(k),
                                  rest \in ForestsOfSize(n - k)} : k \in 1..n}
Asts == {Root(ch) : ch \in UNION {ForestsOfSize(n) : n \in 0..MaxNodes}}

Configs == [skip_helpers : BOOLEAN, format_descriptions : BOOLEAN]

(***************************************************************************)
(* hir/translator.rs                                                       *)
(***************************************************************************)
TEST_PREFIX == <<"t", "e", "s", "t", "_">>

\* Translator::to_snake_case: the generation path's own copy.
RECURSIVE Translator_snake_loop(_, _, _, _)
Translator_snake_loop(s, i, result, prev_is_alphanumeric) ==
    IF i > Len(s) THEN result
    ELSE LET c == s[i] IN
         IF is_alphanumeric(c) THEN
            Translator_snake_loop(s, i + 1,
                Append(IF is_uppercase(c) /\ prev_is_alphanumeric /\ result # <<>>
                       THEN Append(result, "_") ELSE result,
                       to_ascii_lowercase(c)),
                TRUE)
         ELSE IF is_whitespace(c) \/ c = "-" THEN
            IF prev_is_alphanumeric
            THEN Translator_snake_loop(s, i + 1, Append(result, "_"), FALSE)
            ELSE Translator_snake_loop(s, i + 1, result, prev_is_alphanumeric)
         ELSE Translator_snake_loop(s, i + 1, result, FALSE)

Translator_to_snake_case(s) ==
    LET t == trim(s)
        hits == {i \in DOMAIN BDD_PREFIXES : starts_with(t, BDD_PREFIXES[i])}
        stripped ==
            IF hits = {} THEN t
            ELSE LET first == CHOOSE i \in hits : \A j \in hits : i <= j
                 IN  SubSeq(t, Len(BDD_PREFIXES[first]) + 1, Len(t))
    IN  trim_end_underscores(Translator_snake_loop(stripped, 1, <<>>, FALSE))

\* Mutant of should_panic: whole words only, as a word-matching
\* implementation would decide it.
should_panic_whole_word(t) ==
    LET words == split_whitespace(to_lowercase(t))
    IN  \E w \in DOMAIN words : \E k \in DOMAIN PANIC_KEYWORDS :
            words[w] = PANIC_KEYWORDS[k]

\* Translator::should_panic
should_panic(t) ==
    LET title_lower == to_lowercase(t)
    IN  \E k \in DOMAIN PANIC_KEYWORDS : contains(title_lower, PANIC_KEYWORDS[k])

condition_to_helper_name(condition) == Translator_to_snake_case(condition.title)

\* Mutant of action_to_test_name: the outermost helper instead of the last.
action_to_test_name_first_helper(action, helpers) ==
    LET action_part == Translator_to_snake_case(action.title)
    IN  IF helpers = <<>> THEN TEST_PREFIX \o action_part
        ELSE TEST_PREFIX \o helpers[1] \o <<"_">> \o action_part

\* Translator::action_to_test_name
action_to_test_name(action, helpers) ==
    LET action_part == Translator_to_snake_case(action.title)
    IN  IF helpers = <<>> THEN TEST_PREFIX \o action_part
        ELSE TEST_PREFIX \o helpers[Len(helpers)] \o <<"_">> \o action_part

HirComment(text, format) == [kind |-> "Comment", text |-> text, format |-> format]

\* Translator::translate_action
translate_action(action, helpers, c) ==
    LET descs == SelectSeq(action.children, LAMBDA d : d.kind = "ActionDescription")
    IN  [kind       |-> "TestFunction",
         name       |-> action_to_test_name(action, helpers),
         attributes |-> IF should_panic(action.title)
                        THEN <<"Test", "ShouldPanic">> ELSE <<"Test">>,
         helpers    |-> helpers,
         children   |-> <<HirComment(action.title, c.format_descriptions)>> \o
                        [i \in DOMAIN descs |->
                            HirComment(descs[i].text, c.format_descriptions)]]

\* Translator::process_children: output is the accumulated module.children.
RECURSIVE process_children(_, _, _, _)
process_children(children, parent_helpers, output, c) ==
    IF children = <<>> THEN output
    ELSE LET child == Head(children) IN
         IF child.kind = "Condition" THEN
            process_children(Tail(children), parent_helpers,
                process_children(child.children,
                    Append(parent_helpers, condition_to_helper_name(child)),
                    output, c),
                c)
         ELSE IF child.kind = "Action" THEN
            process_children(Tail(children), parent_helpers,
                Append(output, translate_action(child, parent_helpers, c)), c)
         ELSE process_children(Tail(children), parent_helpers, output, c)

\* Translator::translate_test_module
translate_test_module(children, c) ==
    [kind     |-> "TestModule",
     name     |-> TEST_MODULE_NAME,
     children |-> process_children(children, <<>>, <<>>, c)]

HelperFunction(name, doc) == [kind |-> "Helper", name |-> name, doc |-> doc]

\* Mutant of collect_helpers_recursive: no `seen` test, every Condition
\* emits a helper.
RECURSIVE collect_all_helpers_recursive(_, _)
collect_all_helpers_recursive(children, acc) ==
    IF children = <<>> THEN acc
    ELSE LET child == Head(children) IN
         IF child.kind = "Condition" THEN
            LET name == condition_to_helper_name(child)
                acc1 == [helpers |-> Append(acc.helpers,
                                            HelperFunction(name, child.title)),
                         seen    |-> acc.seen \cup {name}]
            IN  collect_all_helpers_recursive(Tail(children),
                    collect_all_helpers_recursive(child.children, acc1))
         ELSE collect_all_helpers_recursive(Tail(children), acc)

\* Mutant of Translator_collect_helpers_recursive: the Conditions below a
\* Condition are not visited.
RECURSIVE Translator_collect_helpers_top_level(_, _)
Translator_collect_helpers_top_level(children, acc) ==
    IF children = <<>> THEN acc
    ELSE LET child == Head(children) IN
         IF child.kind = "Condition" THEN
            LET name == condition_to_helper_name(child)
                acc1 == IF name \notin acc.seen
                        THEN [helpers |-> Append(acc.helpers,
                                            HelperFunction(name, child.title)),
                              seen    |-> acc.seen \cup {name}]
                        ELSE acc
            IN  Translator_collect_helpers_top_level(Tail(children), acc1)
         ELSE Translator_collect_helpers_top_level(Tail(children), acc)

\* Translator::collect_helpers_recursive: acc holds `helpers` and `seen`.
RECURSIVE Translator_collect_helpers_recursive(_, _)
Translator_collect_helpers_recursive(children, acc) ==
    IF children = <<>> THEN acc
    ELSE LET child == Head(children) IN
         IF child.kind = "Condition" THEN
            LET name == condition_to_helper_name(child)
                acc1 == IF name \notin acc.seen
                        THEN [helpers |-> Append(acc.helpers,
                                            HelperFunction(name, child.title)),
                              seen    |-> acc.seen \cup {name}]
                        ELSE acc
            IN  Translator_collect_helpers_recursive(Tail(children),
                    Translator_collect_helpers_recursive(child.children, acc1))
         ELSE Translator_collect_helpers_recursive(Tail(children), acc)

\* Translator::collect_helpers
collect_helpers(children) ==
    Translator_collect_helpers_recursive(children,
        [helpers |-> <<>>, seen |-> {}]).helpers

HirContext == [kind |-> "Context", name |-> CONTEXT_STRUCT_NAME]

\* Mutant of translate: skip_helpers is not read, the helpers are always
\* collected.
translate_helpers_always(ast, c) ==
    IF ast.kind # "Root" THEN [kind |-> "Err"]
    ELSE [kind     |-> "Root",
          children |-> <<HirContext>> \o collect_helpers(ast.children) \o
                       <<translate_test_module(ast.children, c)>>]

\* Translator::translate: the Ok value, or TranslateErr when it bails.
TranslateErr == [kind |-> "Err"]
translate(ast, c) ==
    IF ast.kind # "Root" THEN TranslateErr
    ELSE [kind     |-> "Root",
          children |-> <<HirContext>> \o
                       (IF ~c.skip_helpers THEN collect_helpers(ast.children)
                        ELSE <<>>) \o
                       <<translate_test_module(ast.children, c)>>]

(***************************************************************************)
(* Rust source files: the syn::File of the text and whether it parses      *)
(***************************************************************************)
Attr(path, tokens) == [path |-> path, tokens |-> tokens]
AttrTest == Attr("test", <<>>)
AttrShouldPanic == Attr("should_panic", <<>>)
AttrCfgTest == Attr("cfg", <<"t", "e", "s", "t">>)

ItemFn(ident, attrs) == [kind |-> "Fn", ident |-> ident, attrs |-> attrs]
ItemStruct(ident) == [kind |-> "Struct", ident |-> ident]
ItemMod(ident, attrs, items) ==
    [kind |-> "Mod", ident |-> ident, attrs |-> attrs, items |-> items]

NoFile == [exists |-> FALSE]
RustFile(valid, items) == [exists |-> TRUE, valid |-> valid, items |-> items]

(***************************************************************************)
(* scaffold/emitter.rs                                                     *)
(***************************************************************************)
\* Emitter::emit: the context declaration, one declaration per helper in
\* collection order, then the test module with one function per test in
\* HIR child order.
emit(h) ==
    LET helpers == SelectSeq(h.children, LAMBDA n : n.kind = "Helper")
        modules == SelectSeq(h.children, LAMBDA n : n.kind = "TestModule")
        test_fn(t) ==
            ItemFn(t.name,
                   [i \in DOMAIN t.attributes |->
                       IF t.attributes[i] = "ShouldPanic"
                       THEN AttrShouldPanic ELSE AttrTest])
    IN  RustFile(TRUE,
            <<ItemStruct(CONTEXT_STRUCT_NAME)>> \o
            [i \in DOMAIN helpers |-> ItemFn(helpers[i].name, <<>>)] \o
            [i \in DOMAIN modules |->
                ItemMod(modules[i].name, <<AttrCfgTest>>,
                        [j \in DOMAIN modules[i].children |->
                            test_fn(modules[i].children[j])])])

\* scaffold::scaffold
scaffold(ast, c) == emit(translate(ast, c))

(***************************************************************************)
(* rust/parser.rs                                                          *)
(***************************************************************************)
\* ParsedRustFile::has_test_attr
has_test_attr(attrs) == \E i \in DOMAIN attrs : attrs[i].path = "test"

\* ParsedRustFile::has_cfg_test
has_cfg_test(attrs) ==
    \E i \in DOMAIN attrs :
        attrs[i].path = "cfg" /\ contains(attrs[i].tokens, <<"t", "e", "s", "t">>)

\* ParsedRustFile::has_should_panic
has_should_panic(func) ==
    \E i \in DOMAIN func.attrs : func.attrs[i].path = "should_panic"

\* ParsedRustFile::find_test_module: the first #[cfg(test)] module, as a
\* sequence of at most one item.
find_test_module(parsed) ==
    LET mods == SelectSeq(parsed.items,
                          LAMBDA it : it.kind = "Mod" /\ has_cfg_test(it.attrs))
    IN  IF mods = <<>> THEN <<>> ELSE <<Head(mods)>>

\* Mutant of find_test_functions: the file's own items are searched, not
\* the test module's.
find_test_functions_in_file(parsed) ==
    SelectSeq(parsed.items, LAMBDA it : it.kind = "Fn" /\ has_test_attr(it.attrs))

\* ParsedRustFile::find_test_functions
find_test_functions(parsed) ==
    LET m == find_test_module(parsed)
    IN  IF m = <<>> THEN <<>>
        ELSE SelectSeq(m[1].items,
                       LAMBDA it : it.kind = "Fn" /\ has_test_attr(it.attrs))

\* ParsedRustFile::find_helper_functions
find_helper_functions(parsed) ==
    SelectSeq(parsed.items, LAMBDA it : it.kind = "Fn" /\ ~has_test_attr(it.attrs))

(***************************************************************************)
(* check/violation.rs                                                      *)
(***************************************************************************)
RUST_PATH == "t_test.rs"

Violation(kind) == [kind |-> kind, file_path |-> RUST_PATH]
RustFileMissing == [tag |-> "RustFileMissing"]
RustFileInvalid == [tag |-> "RustFileInvalid"]
TestModuleMissing == [tag |-> "TestModuleMissing"]
TestFunctionMissing(name) == [tag |-> "TestFunctionMissing", name |-> name]
HelperFunctionMissing(name) == [tag |-> "HelperFunctionMissing", name |-> name]
TestAttributeIncorrect(function, expected, found) ==
    [tag |-> "TestAttributeIncorrect", function |-> function,
     expected |-> expected, found |-> found]
TestOrderIncorrect == [tag |-> "TestOrderIncorrect"]

\* impl Display for ViolationKind: the message, as its pieces.
DisplayKind(kind) ==
    CASE kind.tag = "RustFileMissing" -> <<"Rust test file is missing">>
      [] kind.tag = "RustFileInvalid" -> <<"Rust file could not be parsed: ">>
      [] kind.tag = "TestModuleMissing" ->
            <<"Test module (#[cfg(test)] mod tests) is missing">>
      [] kind.tag = "TestFunctionMissing" ->
            <<"Test function '", kind.name, "' is missing">>
      [] kind.tag = "HelperFunctionMissing" ->
            <<"Helper function '", kind.name, "' is missing">>
      [] kind.tag = "TestAttributeIncorrect" ->
            <<"Test function '", kind.function, "' has incorrect attributes: expected ",
              kind.expected, ", found ", kind.found>>
      [] kind.tag = "TestOrderIncorrect" ->
            <<"Test function order does not match spec order">>

\* impl Display for Violation (line is None): "<file_path>: <kind>".
Display(v) == <<v.file_path, ": ">> \o DisplayKind(v.kind)

(***************************************************************************)
(* check/rules/structural_match.rs                                         *)
(***************************************************************************)
TEST_WHEN_PREFIX == <<"t", "e", "s", "t", "_", "w", "h", "e", "n", "_">>
TestInfo(name, sp) == [name |-> name, should_panic |-> sp]

\* The matches!(w, "panic" | ...) test over the words of the lower-cased
\* title, lines 187-191 and 208-210.
title_has_panic_word(t) ==
    LET words == split_whitespace(to_lowercase(t))
    IN  \E w \in DOMAIN words :
            words[w] \in {
                <<"p", "a", "n", "i", "c">>, <<"p", "a", "n", "i", "c", "s">>,
                <<"r", "e", "v", "e", "r", "t">>,
                <<"r", "e", "v", "e", "r", "t", "s">>,
                <<"e", "r", "r", "o", "r">>, <<"e", "r", "r", "o", "r", "s">>,
                <<"f", "a", "i", "l">>, <<"f", "a", "i", "l", "s">> }

\* Mutant of collect_helpers_recursive: the Conditions below a Condition
\* are not visited.
RECURSIVE collect_helpers_top_level(_, _)
collect_helpers_top_level(children, helpers) ==
    IF children = <<>> THEN helpers
    ELSE LET child == Head(children) IN
         IF child.kind = "Condition" THEN
            collect_helpers_top_level(Tail(children),
                helpers \cup {to_snake_case(child.title)})
         ELSE collect_helpers_top_level(Tail(children), helpers)

\* collect_helpers_recursive: helpers is a HashSet.
RECURSIVE collect_helpers_recursive(_, _)
collect_helpers_recursive(children, helpers) ==
    IF children = <<>> THEN helpers
    ELSE LET child == Head(children) IN
         IF child.kind = "Condition" THEN
            collect_helpers_recursive(Tail(children),
                collect_helpers_recursive(child.children,
                    helpers \cup {to_snake_case(child.title)}))
         ELSE collect_helpers_recursive(Tail(children), helpers)

\* collect_tests_recursive
RECURSIVE collect_tests_recursive(_, _, _)
collect_tests_recursive(children, parent_helpers, tests) ==
    IF children = <<>> THEN tests
    ELSE LET child == Head(children) IN
         IF child.kind = "Condition" THEN
            LET new_helpers == Append(parent_helpers, to_snake_case(child.title))
                actions == SelectSeq(child.children, LAMBDA n : n.kind = "Action")
                test_name ==
                    IF new_helpers = <<>>
                    THEN TEST_PREFIX \o to_snake_case(actions[1].title)
                    ELSE TEST_WHEN_PREFIX \o new_helpers[Len(new_helpers)]
                sp == \E i \in DOMAIN actions : title_has_panic_word(actions[i].title)
                tests1 == IF actions # <<>>
                          THEN Append(tests, TestInfo(test_name, sp)) ELSE tests
            IN  collect_tests_recursive(Tail(children), parent_helpers,
                    collect_tests_recursive(child.children, new_helpers, tests1))
         ELSE IF child.kind = "Action" THEN
            collect_tests_recursive(Tail(children), parent_helpers,
                IF parent_helpers = <<>>
                THEN Append(tests,
                        TestInfo(TEST_PREFIX \o to_snake_case(child.title),
                                 title_has_panic_word(child.title)))
                ELSE tests)
         ELSE collect_tests_recursive(Tail(children), parent_helpers, tests)

\* extract_expected_structure (the ast is a Root: check hands it parse_one's
\* result)
extract_expected_structure(ast, c) ==
    [helpers        |-> IF ~c.skip_helpers
                        THEN collect_helpers_recursive(ast.children, {})
                        ELSE {},
     test_functions |-> collect_tests_recursive(ast.children, <<>>, <<>>)]

\* The orders in which a HashSet may be iterated.
IterationOrders(S) ==
    {s \in [1..Cardinality(S) -> S] : \A i, j \in DOMAIN s : s[i] = s[j] => i = j}

\* Lines 62-78: the helper loop, iterating expected.helpers in `order`.
helper_violations(expected, parsed, c, order) ==
    IF c.skip_helpers THEN <<>>
    ELSE LET found == find_helper_functions(parsed)
             found_helpers == {found[i].ident : i \in DOMAIN found}
             missing == SelectSeq(order, LAMBDA h : h \notin found_helpers)
         IN  [i \in DOMAIN missing |-> Violation(HelperFunctionMissing(missing[i]))]

\* Mutant of test_violations: the attribute test made symmetric, an
\* unexpected #[should_panic] flagged too.
RECURSIVE test_violations_symmetric(_, _, _)
test_violations_symmetric(test_functions, found_tests, out) ==
    IF test_functions = <<>> THEN out
    ELSE LET expected_test == Head(test_functions)
             found_test_names == {found_tests[i].ident : i \in DOMAIN found_tests}
         IN  IF expected_test.name \notin found_test_names THEN
                test_violations_symmetric(Tail(test_functions), found_tests,
                    Append(out, Violation(TestFunctionMissing(expected_test.name))))
             ELSE
                LET found_fn == Head(SelectSeq(found_tests,
                                    LAMBDA f : f.ident = expected_test.name))
                    has == has_should_panic(found_fn)
                IN  test_violations_symmetric(Tail(test_functions), found_tests,
                        IF expected_test.should_panic /\ ~has
                        THEN Append(out, Violation(TestAttributeIncorrect(
                                expected_test.name, "#[should_panic]", "none")))
                        ELSE IF ~expected_test.should_panic /\ has
                        THEN Append(out, Violation(TestAttributeIncorrect(
                                expected_test.name, "none", "#[should_panic]")))
                        ELSE out)

\* Lines 80-111: the loop over expected.test_functions.
RECURSIVE test_violations(_, _, _)
test_violations(test_functions, found_tests, out) ==
    IF test_functions = <<>> THEN out
    ELSE LET expected_test == Head(test_functions)
             found_test_names == {found_tests[i].ident : i \in DOMAIN found_tests}
         IN  IF expected_test.name \notin found_test_names THEN
                test_violations(Tail(test_functions), found_tests,
                    Append(out, Violation(TestFunctionMissing(expected_test.name))))
             ELSE
                LET found_fn == Head(SelectSeq(found_tests,
                                    LAMBDA f : f.ident = expected_test.name))
                    has == has_should_panic(found_fn)
                IN  test_violations(Tail(test_functions), found_tests,
                        IF expected_test.should_panic /\ ~has
                        THEN Append(out, Violation(TestAttributeIncorrect(
                                expected_test.name, "#[should_panic]", "none")))
                        ELSE out)

\* Mutant of check_structural_match: a missing test module does not stop
\* the check.
check_structural_match_no_stop(ast, rust_source, c, order) ==
    IF ~rust_source.valid THEN <<Violation(RustFileInvalid)>>
    ELSE LET expected == extract_expected_structure(ast, c)
         IN  (IF find_test_module(rust_source) = <<>>
              THEN <<Violation(TestModuleMissing)>> ELSE <<>>) \o
             helper_violations(expected, rust_source, c, order) \o
             test_violations(expected.test_functions,
                             find_test_functions(rust_source), <<>>)

\* check_structural_match; `order` is the iteration order of expected.helpers.
check_structural_match(ast, rust_source, c, order) ==
    IF ~rust_source.valid THEN <<Violation(RustFileInvalid)>>
    ELSE IF find_test_module(rust_source) = <<>>
         THEN <<Violation(TestModuleMissing)>>
    ELSE LET expected == extract_expected_structure(ast, c)
         IN  helper_violations(expected, rust_source, c, order) \o
             test_violations(expected.test_functions,
                             find_test_functions(rust_source), <<>>)

(***************************************************************************)
(* check/mod.rs                                                            *)
(***************************************************************************)
\* Mutant of check: a missing file is taken as nothing to check.
check_missing_file_is_clean(ast, f, c, order) ==
    IF ~f.exists THEN <<>>
    ELSE check_structural_match(ast, f, c, order)

\* check: the Ok value (the tree file is readable and parses).
check(ast, f, c, order) ==
    IF ~f.exists THEN <<Violation(RustFileMissing)>>
    ELSE check_structural_match(ast, f, c, order)

(***************************************************************************)
(* The session: scaffold the test file, edit it by hand, check it          *)
(***************************************************************************)
NoHir == [kind |-> "None"]

Init ==
    /\ tree \in Asts
    /\ cfg \in Configs
    /\ hir = NoHir
    /\ file = NoFile
    /\ edits = 0
    /\ fix = FALSE
    /\ violations = <<>>
    /\ exit_code = 0
    /\ pc = "start"
    /\ title = <<>>
    /\ slug = <<>>
    /\ unit = NoHir
    /\ stdout = FALSE
    /\ printed = <<>>
    /\ eprinted = <<>>
    /\ specs = <<>>
    /\ checked = 0
    /\ ctx = NoHir
    /\ fixed_count = 0

naming == <<title, slug, unit>>
cli == <<stdout, printed, eprinted, specs, checked, ctx, fixed_count>>

\* `bulloak scaffold --lang rust`: translate, emit, write <stem>_test.rs.
Scaffold ==
    /\ pc = "start"
    /\ hir' = translate(tree, cfg)
    /\ file' = emit(hir')
    /\ pc' = "scaffolded"
    /\ UNCHANGED <<tree, cfg, edits, fix, violations, exit_code, naming, cli>>

\* Hand edits of the test file.
ModuleIndex(f) ==
    CHOOSE i \in DOMAIN f.items :
        /\ f.items[i].kind = "Mod" /\ has_cfg_test(f.items[i].attrs)
        /\ \A j \in 1..(i - 1) :
              ~(f.items[j].kind = "Mod" /\ has_cfg_test(f.items[j].attrs))
ModuleItems(f) ==
    IF find_test_module(f) = <<>> THEN <<>> ELSE find_test_module(f)[1].items
WithModuleItems(f, items) ==
    [f EXCEPT !.items[ModuleIndex(f)].items = items]
RemoveAt(s, i) == SubSeq(s, 1, i - 1) \o SubSeq(s, i + 1, Len(s))

CanEdit ==
    /\ pc \in {"scaffolded", "edited"}
    /\ edits < MaxEdits
    /\ file.exists /\ file.valid
Edited(f) ==
    /\ file' = f
    /\ edits' = edits + 1
    /\ pc' = "edited"
    /\ UNCHANGED <<tree, cfg, hir, fix, violations, exit_code, naming, cli>>

\* A test function is deleted from the test module.
RemoveTestFunction ==
    /\ CanEdit
    /\ \E i \in DOMAIN ModuleItems(file) :
          Edited(WithModuleItems(file, RemoveAt(ModuleItems(file), i)))

\* #[should_panic] is put on a test function that has none.
AddShouldPanic ==
    /\ CanEdit
    /\ \E i \in DOMAIN ModuleItems(file) :
          /\ ~has_should_panic(ModuleItems(file)[i])
          /\ Edited(WithModuleItems(file,
                [ModuleItems(file) EXCEPT ![i].attrs = Append(@, AttrShouldPanic)]))

\* #[should_panic] is taken off a test function.
RemoveShouldPanic ==
    /\ CanEdit
    /\ \E i \in DOMAIN ModuleItems(file) :
          /\ has_should_panic(ModuleItems(file)[i])
          /\ Edited(WithModuleItems(file,
                [ModuleItems(file) EXCEPT ![i].attrs =
                    SelectSeq(@, LAMBDA a : a.path # "should_panic")]))

\* Two neighbouring test functions change places.
SwapTestFunctions ==
    /\ CanEdit
    /\ \E i \in DOMAIN ModuleItems(file) :
          /\ i + 1 \in DOMAIN ModuleItems(file)
          /\ ModuleItems(file)[i] # ModuleItems(file)[i + 1]
          /\ Edited(WithModuleItems(file,
                [ModuleItems(file) EXCEPT ![i] = ModuleItems(file)[i + 1],
                                          ![i + 1] = ModuleItems(file)[i]]))

\* An untracked test function is written at the top of the test module.
EXTRA_TEST_NAME == <<"s", "e", "t", "u", "p">>
AddExtraTestFunction ==
    /\ CanEdit
    /\ find_test_module(file) # <<>>
    /\ \E sp \in BOOLEAN :
          Edited(WithModuleItems(file,
                <<ItemFn(EXTRA_TEST_NAME,
                         IF sp THEN <<AttrTest, AttrShouldPanic>> ELSE <<AttrTest>>)>>
                \o ModuleItems(file)))

\* A helper function is deleted.
RemoveHelperFunction ==
    /\ CanEdit
    /\ \E i \in DOMAIN file.items :
          /\ file.items[i].kind = "Fn"
          /\ Edited([file EXCEPT !.items = RemoveAt(@, i)])

\* The test module is deleted.
RemoveTestModule ==
    /\ CanEdit
    /\ find_test_module(file) # <<>>
    /\ Edited([file EXCEPT !.items = RemoveAt(@, ModuleIndex(file))])

\* The text is damaged so that it is no Rust any more.
BreakSyntax ==
    /\ CanEdit
    /\ Edited([file EXCEPT !.valid = FALSE])

\* Check::report_violations: the exit status.
report_violations(vs) == IF vs = <<>> THEN 0 ELSE 1

SUCCESS_MESSAGE == "All checks completed successfully! No issues found."
\* Check::report_violations: what it prints to standard output ...
report_printed(vs) == IF vs = <<>> THEN <<<<SUCCESS_MESSAGE>>>> ELSE <<>>
\* ... and to standard error.
report_eprinted(vs) ==
    IF vs = <<>> THEN <<>>
    ELSE <<<<"warn: ", ToString(Len(vs)),
             IF Len(vs) = 1 THEN " check" ELSE " checks", " failed">>>>

\* Check::collect_violations over the one tree file: check's Ok value.
collect_violations(ast, f, c, order) == check(ast, f, c, order)

\* `bulloak check --lang rust [--fix [--stdout]]`: Check::run returns
\* run_rust_check(), which reads neither self.fix nor self.stdout.
\* collect_violations prints each violation to standard error as it is
\* collected, report_violations the verdict.
CheckRun ==
    /\ pc \in {"start", "scaffolded", "edited"}
    /\ \E f \in BOOLEAN, so \in BOOLEAN :
       \E order \in IterationOrders(extract_expected_structure(tree, cfg).helpers) :
          /\ so => f
          /\ fix' = f
          /\ stdout' = so
          /\ violations' = collect_violations(tree, file, cfg, order)
          /\ exit_code' = report_violations(violations')
          /\ printed' = report_printed(violations')
          /\ eprinted' = [i \in DOMAIN violations' |-> Display(violations'[i])]
                           \o report_eprinted(violations')
    /\ pc' = "checked"
    /\ UNCHANGED <<tree, cfg, hir, file, edits, naming, specs, checked, ctx, fixed_count>>

Next ==
    \/ Scaffold
    \/ RemoveTestFunction
    \/ AddShouldPanic
    \/ RemoveShouldPanic
    \/ SwapTestFunctions
    \/ AddExtraTestFunction
    \/ RemoveHelperFunction
    \/ RemoveTestModule
    \/ BreakSyntax
    \/ CheckRun

Spec == Init /\ [][Next]_vars

\* `bulloak scaffold --lang rust` alone, over every tree and config.
NextScaffold == Scaffold

SpecScaffold == Init /\ [][NextScaffold]_vars

(***************************************************************************)
(* The batch: `bulloak check --lang rust` over several tree files          *)
(***************************************************************************)
\* Largest number of tree files on the command line.
MaxFiles == 2

tree_path(i) == "spec" \o ToString(i) \o ".tree"
\* check/mod.rs, lines 26-29: <stem>_test.rs beside the tree file.
rust_path(i) == "spec" \o ToString(i) \o "_test.rs"

\* A tree file: unreadable, rejected by bulloak_syntax::parse_one, or parsed.
UnreadableTree == [status |-> "unreadable"]
UnparseableTree == [status |-> "unparseable"]
ParsedTree(ast) == [status |-> "parsed", ast |-> ast]

BatchTrees == {
    Root(<<Action(<<"I", "t", " ", "d", "o", "e", "s", " ", "y", ".">>, <<>>)>>),
    Root(<<Condition(<<"W", "h", "e", "n", " ", "x">>,
               <<Action(<<"I", "t", " ", "f", "a", "i", "l", "u", "r", "e">>, <<>>)>>)>>) }

\* A tree file of the batch and the test file beside it: missing, not
\* readable as text, as scaffolded, or damaged.
BatchEntry(t, f, readable) == [tree |-> t, rust |-> f, rust_readable |-> readable]
\* A tree with two Conditions, and the test file scaffolded for it with
\* --skip-helpers: it has none of the helpers.
TwoHelperTree ==
    Root(<<Condition(<<"W", "h", "e", "n", " ", "x">>,
               <<Action(<<"I", "t", " ", "f", "a", "i", "l", "u", "r", "e">>, <<>>),
                 Condition(<<"G", "i", "v", "e", "n", " ", "y">>,
                     <<Action(<<"I", "t", " ", "d", "o", "e", "s", " ", "y", ".">>,
                              <<>>)>>)>>)>>)
BatchEntries(c) ==
    {BatchEntry(UnreadableTree, NoFile, TRUE), BatchEntry(UnparseableTree, NoFile, TRUE),
     BatchEntry(ParsedTree(TwoHelperTree),
                scaffold(TwoHelperTree, [c EXCEPT !.skip_helpers = TRUE]), TRUE)}
    \cup UNION {
        {BatchEntry(ParsedTree(ast), NoFile, TRUE),
         BatchEntry(ParsedTree(ast), scaffold(ast, c), TRUE),
         BatchEntry(ParsedTree(ast), scaffold(ast, c), FALSE),
         BatchEntry(ParsedTree(ast), [scaffold(ast, c) EXCEPT !.valid = FALSE], TRUE)}
        : ast \in BatchTrees}
Batches(c) == UNION {[1..n -> BatchEntries(c)] : n \in 1..MaxFiles}

Ok(vs) == [ok |-> TRUE, violations |-> vs]
Err(e) == [ok |-> FALSE, error |-> e]

\* check/mod.rs, check, as a Result, for the i-th tree file of the batch:
\* the `?` of lines 20, 23 and 41 return the error.
check_tree_path(i, e, c, order) ==
    IF e.tree.status = "unreadable" THEN Err("Failed to read tree file")
    ELSE IF e.tree.status = "unparseable" THEN Err("parse error")
    ELSE IF e.rust.exists /\ ~e.rust_readable THEN Err("Failed to read Rust file")
    ELSE LET vs == check(e.tree.ast, e.rust, c, order)
         IN  Ok([k \in DOMAIN vs |-> [vs[k] EXCEPT !.file_path = rust_path(i)]])

\* The iteration orders of expected.helpers for the entry.
EntryOrders(e, c) ==
    IF e.tree.status = "parsed"
    THEN IterationOrders(extract_expected_structure(e.tree.ast, c).helpers)
    ELSE {<<>>}

\* Mutant of collect_one: an error ends the loop.
collect_one_abort_on_err(acc, i, res, n) ==
    IF res.ok
    THEN [violations |-> acc.violations \o res.violations,
          eprinted   |-> acc.eprinted \o
                         [k \in DOMAIN res.violations |-> Display(res.violations[k])],
          checked    |-> i]
    ELSE [violations |-> acc.violations,
          eprinted   |-> Append(acc.eprinted,
                            <<"error: Failed to check ", tree_path(i), ": ", res.error>>),
          checked    |-> n]

\* Check::collect_violations, one turn of its loop (lines 238-255) for the
\* i-th of n tree files.
collect_one(acc, i, res, n) ==
    IF res.ok
    THEN [violations |-> acc.violations \o res.violations,
          eprinted   |-> acc.eprinted \o
                         [k \in DOMAIN res.violations |-> Display(res.violations[k])],
          checked    |-> i]
    ELSE [violations |-> acc.violations,
          eprinted   |-> Append(acc.eprinted,
                            <<"error: Failed to check ", tree_path(i), ": ", res.error>>),
          checked    |-> i]

InitBatch ==
    /\ cfg \in Configs
    /\ specs \in Batches(cfg)
    /\ tree = Root(<<>>)
    /\ hir = NoHir
    /\ file = NoFile
    /\ edits = 0
    /\ fix = FALSE
    /\ violations = <<>>
    /\ exit_code = 0
    /\ pc = "start"
    /\ title = <<>>
    /\ slug = <<>>
    /\ unit = NoHir
    /\ stdout = FALSE
    /\ printed = <<>>
    /\ eprinted = <<>>
    /\ checked = 0
    /\ ctx = NoHir
    /\ fixed_count = 0

fixed == <<tree, cfg, hir, file, edits, naming, specs, ctx, fixed_count>>

\* Check::run with --lang rust: run_rust_check expands the specs and enters
\* collect_violations.
RunRustCheck ==
    /\ pc = "start"
    /\ \E f \in BOOLEAN, so \in BOOLEAN :
          /\ so => f
          /\ fix' = f
          /\ stdout' = so
    /\ pc' = "collecting"
    /\ UNCHANGED <<violations, exit_code, printed, eprinted, checked, fixed>>

\* One turn of the loop of collect_violations.
CollectViolations ==
    /\ pc = "collecting"
    /\ checked < Len(specs)
    /\ \E order \in EntryOrders(specs[checked + 1], cfg) :
          LET res == check_tree_path(checked + 1, specs[checked + 1], cfg, order)
              acc == collect_one([violations |-> violations, eprinted |-> eprinted,
                                  checked |-> checked],
                                 checked + 1, res, Len(specs))
          IN  /\ violations' = acc.violations
              /\ eprinted' = acc.eprinted
              /\ checked' = acc.checked
    /\ UNCHANGED <<fix, stdout, exit_code, printed, pc, fixed>>

\* The loop is over: report_violations.
ReportViolations ==
    /\ pc = "collecting"
    /\ checked >= Len(specs)
    /\ exit_code' = report_violations(violations)
    /\ printed' = report_printed(violations)
    /\ eprinted' = eprinted \o report_eprinted(violations)
    /\ pc' = "checked"
    /\ UNCHANGED <<fix, stdout, violations, checked, fixed>>

NextBatch == RunRustCheck \/ CollectViolations \/ ReportViolations

SpecBatch == InitBatch /\ [][NextBatch]_vars

(***************************************************************************)
(* The Solidity branch of Check::run (check.rs, lines 71-166).  What it    *)
(* calls in bulloak_foundry (Context::new, StructuralMatcher::check,       *)
(* ViolationKind::fix, fix_order) follows sections 4.5 and 4.6 of the      *)
(* specification: a document is the container's declarations in file       *)
(* order, the HIR the expected test ids in tree order.                     *)
(***************************************************************************)
\* Largest number of tree files of a Solidity batch.
MaxContexts == 1
\* Largest number of declarations in a contract.
MaxDecls == 4

sol_path(i) == "spec" \o ToString(i) \o ".t.sol"

DeclIds == {"a", "b", "c", "setup"}
EXPECTED_IDS == <<"a", "b", "c">>
Injective(s) == \A i, j \in DOMAIN s : s[i] = s[j] => i = j
SolDocument(contract, fns) == [contract |-> contract, fns |-> fns]
SolDocuments ==
    {SolDocument(FALSE, <<>>)} \cup
    {SolDocument(TRUE, fns) :
        fns \in {s \in UNION {[1..n -> DeclIds] : n \in 0..MaxDecls} : Injective(s)}}

\* A tree file of the batch: one for which no Context can be built (tree or
\* Solidity file unreadable or unparseable), or one with its Solidity file.
BrokenContext == [ok |-> FALSE]
SolEntry(doc) == [ok |-> TRUE, hir |-> EXPECTED_IDS, pt |-> doc]
SolEntries == {BrokenContext} \cup {SolEntry(d) : d \in SolDocuments}
SolBatches == UNION {[1..n -> SolEntries] : n \in 1..MaxContexts}

SolViolation(kind, i) == [kind |-> kind, file_path |-> sol_path(i)]
ParsingFailed == [tag |-> "ParsingFailed"]
MissingContainer == [tag |-> "MissingContainer"]
MissingArtifact(id) == [tag |-> "MissingArtifact", id |-> id]
OrderMismatch == [tag |-> "OrderMismatch"]

\* Violation::is_fixable
is_fixable(v) == v.kind.tag \in {"MissingArtifact", "OrderMismatch"}
is_order(v) == v.kind.tag = "OrderMismatch"

\* Context::new
Context(i, e) == [index |-> i, sol |-> sol_path(i), hir |-> e.hir, pt |-> e.pt]
Context_new(i, e) ==
    IF e.ok THEN [ok |-> TRUE, ctx |-> Context(i, e)]
    ELSE [ok |-> FALSE, violation |-> SolViolation(ParsingFailed, i)]

\* The sequence of ids holds id.
declares(ids, id) == \E k \in DOMAIN ids : ids[k] = id

\* Section 4.5, step 4: the greedy scan; the expected ids left unmatched.
RECURSIVE greedy_scan(_, _)
greedy_scan(expected, actual) ==
    IF expected = <<>> \/ actual = <<>> THEN expected
    ELSE IF Head(actual) = Head(expected)
         THEN greedy_scan(Tail(expected), Tail(actual))
         ELSE greedy_scan(expected, Tail(actual))

\* StructuralMatcher::check (section 4.5, steps 1, 3 and 4)
StructuralMatcher_check(c) ==
    IF ~c.pt.contract THEN <<SolViolation(MissingContainer, c.index)>>
    ELSE LET missing == SelectSeq(c.hir, LAMBDA id : ~declares(c.pt.fns, id))
         IN  [k \in DOMAIN missing |-> SolViolation(MissingArtifact(missing[k]), c.index)]
             \o (IF greedy_scan(c.hir, c.pt.fns) # <<>>
                 THEN <<SolViolation(OrderMismatch, c.index)>> ELSE <<>>)

\* ViolationKind::fix (section 4.6, pass 1): a missing artifact is inserted
\* at the end of its container, unless the fix cannot be applied.
ViolationKind_fix(v, c, applies) ==
    IF v.kind.tag = "MissingArtifact" /\ applies
    THEN [ok |-> TRUE, ctx |-> [c EXCEPT !.pt.fns = Append(@, v.kind.id)]]
    ELSE [ok |-> FALSE, error |-> "cannot be applied"]

\* fix_order (section 4.6, pass 2): the expected ids first, in expected
\* order, then the other declarations in their original relative order.
fix_order(vs, c) ==
    [c EXCEPT !.pt.fns =
        SelectSeq(c.hir, LAMBDA id : declares(c.pt.fns, id))
        \o SelectSeq(c.pt.fns, LAMBDA id : ~declares(c.hir, id))]

\* Lines 72-93: the contexts that could be built, and the violations of the
\* ones that could not.
RECURSIVE build_contexts(_, _, _)
build_contexts(batch, i, acc) ==
    IF i > Len(batch) THEN acc
    ELSE LET r == Context_new(i, batch[i])
         IN  build_contexts(batch, i + 1,
                IF r.ok THEN [acc EXCEPT !.ctxs = Append(@, r.ctx)]
                ELSE [acc EXCEPT !.violations = Append(@, r.violation)])
ctxs_of(batch) == build_contexts(batch, 1, [ctxs |-> <<>>, violations |-> <<>>]).ctxs
context_violations(batch) ==
    build_contexts(batch, 1, [ctxs |-> <<>>, violations |-> <<>>]).violations

\* Lines 95-99: the violations of every context, appended in turn.
RECURSIVE check_all(_)
check_all(cs) ==
    IF cs = <<>> THEN <<>>
    ELSE StructuralMatcher_check(Head(cs)) \o check_all(Tail(cs))

\* exit (lines 279-310): the status, standard output, standard error.
exit_status(vs) == IF vs = <<>> THEN 0 ELSE 1
exit_printed(vs) == IF vs = <<>> THEN <<<<SUCCESS_MESSAGE>>>> ELSE <<>>
exit_eprinted(vs) ==
    IF vs = <<>> THEN <<>>
    ELSE LET fixable_count == Len(SelectSeq(vs, is_fixable))
         IN  [k \in DOMAIN vs |-> <<vs[k]>>]
             \o <<<<"warn: ", ToString(Len(vs)),
                    IF Len(vs) = 1 THEN " check" ELSE " checks", " failed">>
                  \o (IF fixable_count > 0
                      THEN <<" (run bulloak check --fix to apply ",
                             ToString(fixable_count),
                             IF fixable_count = 1 THEN " fix)" ELSE " fixes)">>
                      ELSE <<>>)>>

\* Mutant of second_pass: the order is never repaired.
second_pass_skipped(c) == c

\* Mutant of second_pass: the order violations are those of the check made
\* before the first pass, on the document as it was read.
second_pass_from_initial(c) ==
    LET vs == SelectSeq(StructuralMatcher_check(Context(c.index, specs[c.index])),
                        is_order)
    IN  IF vs # <<>> /\ c.pt.contract THEN fix_order(vs, c) ELSE c

\* Lines 126-149: the second pass.
second_pass(c) ==
    LET vs == SelectSeq(StructuralMatcher_check(c), is_order)
    IN  IF vs # <<>> /\ c.pt.contract THEN fix_order(vs, c) ELSE c

InitSol ==
    /\ specs \in SolBatches
    /\ cfg = [skip_helpers |-> FALSE, format_descriptions |-> FALSE]
    /\ tree = Root(<<>>)
    /\ hir = NoHir
    /\ file = NoFile
    /\ edits = 0
    /\ fix = FALSE
    /\ violations = <<>>
    /\ exit_code = 0
    /\ pc = "start"
    /\ title = <<>>
    /\ slug = <<>>
    /\ unit = NoHir
    /\ stdout = FALSE
    /\ printed = <<>>
    /\ eprinted = <<>>
    /\ checked = 0
    /\ ctx = NoHir
    /\ fixed_count = 0

rust_session == <<tree, cfg, hir, file, edits, naming>>

\* `bulloak check` (no --fix): lines 72-100 and exit.
SolidityCheck ==
    /\ pc = "start"
    /\ fix' = FALSE
    /\ stdout' = FALSE
    /\ violations' = context_violations(specs) \o check_all(ctxs_of(specs))
    /\ exit_code' = exit_status(violations')
    /\ printed' = exit_printed(violations')
    /\ eprinted' = exit_eprinted(violations')
    /\ pc' = "checked"
    /\ UNCHANGED <<specs, checked, ctx, fixed_count, rust_session>>

\* Mutant of StartFix: the `if !self.fix` test of line 95 is dropped, the fix
\* loop is entered whatever the flag.
StartFix_without_flag ==
    /\ pc = "start"
    /\ fix' \in BOOLEAN
    /\ stdout' = FALSE
    /\ violations' = context_violations(specs)
    /\ fixed_count' = 0
    /\ checked' = 0
    /\ pc' = "fix_loop"
    /\ UNCHANGED <<specs, ctx, exit_code, printed, eprinted, rust_session>>

\* `bulloak check --fix [--stdout]`: lines 72-93 and 103.
StartFix ==
    /\ pc = "start"
    /\ fix' = TRUE
    /\ stdout' \in BOOLEAN
    /\ violations' = context_violations(specs)
    /\ fixed_count' = 0
    /\ checked' = 0
    /\ pc' = "fix_loop"
    /\ UNCHANGED <<specs, ctx, exit_code, printed, eprinted, rust_session>>

\* Lines 104-112: the next context is checked; its violations other than
\* the order ones wait to be fixed.
BeginContext ==
    /\ pc = "fix_loop"
    /\ checked < Len(ctxs_of(specs))
    /\ LET c == ctxs_of(specs)[checked + 1]
           vs == StructuralMatcher_check(c)
       IN  ctx' = [index |-> c.index, sol |-> c.sol, hir |-> c.hir, pt |-> c.pt,
                   fixable_count |-> Len(SelectSeq(vs, is_fixable)),
                   pending |-> SelectSeq(vs, LAMBDA v : ~is_order(v))]
    /\ pc' = "first_pass"
    /\ UNCHANGED <<specs, fix, stdout, violations, fixed_count, checked, exit_code,
                   printed, eprinted, rust_session>>

\* Mutant of first_pass_step: a fix that fails ends the first pass (`break`
\* for `continue`).
first_pass_step_abort(c, r) ==
    IF r.ok THEN [r.ctx EXCEPT !.pending = Tail(c.pending)]
    ELSE [c EXCEPT !.pending = <<>>]

\* Lines 114-123: the `ctx = match ...fix(ctx.clone())` of one turn of the
\* first loop; Err keeps ctx and goes on to the next violation.
first_pass_step(c, r) ==
    IF r.ok THEN [r.ctx EXCEPT !.pending = Tail(c.pending)]
    ELSE [c EXCEPT !.pending = Tail(c.pending)]

\* Lines 113-124: one violation's fix is applied, or reported as failed.
ApplyFix ==
    /\ pc = "first_pass"
    /\ ctx.pending # <<>>
    /\ \E applies \in BOOLEAN :
          LET v == Head(ctx.pending)
              r == ViolationKind_fix(v, ctx, applies)
          IN  /\ ctx' = first_pass_step(ctx, r)
              /\ eprinted' = IF r.ok THEN eprinted
                              ELSE Append(eprinted, <<"unable to fix ", v, r.error>>)
    /\ UNCHANGED <<specs, fix, stdout, violations, fixed_count, checked, exit_code,
                   printed, pc, rust_session>>

\* Lines 126-149: the order is repaired from a fresh check.
SecondPass ==
    /\ pc = "first_pass"
    /\ ctx.pending = <<>>
    /\ ctx' = second_pass(ctx)
    /\ pc' = "write"
    /\ UNCHANGED <<specs, fix, stdout, violations, fixed_count, checked, exit_code,
                   printed, eprinted, rust_session>>

\* Lines 151-156: the document is written to its file, or printed with
\* --stdout; the fixable violations of the first check are counted as fixed.
WriteFixed ==
    /\ pc = "write"
    /\ IF stdout
       THEN /\ printed' = printed \o <<<<"--> ", ctx.sol>>, <<ctx.pt>>, <<"<--">>>>
            /\ specs' = specs
       ELSE /\ specs' = [specs EXCEPT ![ctx.index].pt = ctx.pt]
            /\ printed' = printed
    /\ fixed_count' = fixed_count + ctx.fixable_count
    /\ checked' = checked + 1
    /\ pc' = "fix_loop"
    /\ UNCHANGED <<ctx, fix, stdout, violations, exit_code, eprinted, rust_session>>

\* Lines 159-165: the count is printed and run returns.
FinishFix ==
    /\ pc = "fix_loop"
    /\ checked = Len(ctxs_of(specs))
    /\ printed' = Append(printed,
                     <<"success: ", ToString(fixed_count),
                       IF fixed_count = 1 THEN " issue" ELSE " issues", " fixed.">>)
    /\ exit_code' = 0
    /\ pc' = "checked"
    /\ UNCHANGED <<specs, ctx, fix, stdout, violations, fixed_count, checked, eprinted,
                   rust_session>>

NextSol ==
    \/ SolidityCheck
    \/ StartFix
    \/ BeginContext
    \/ ApplyFix
    \/ SecondPass
    \/ WriteFixed
    \/ FinishFix

SpecSol == InitSol /\ [][NextSol]_vars

(***************************************************************************)
(* The naming session: one title, named and classified                     *)
(***************************************************************************)
TitleTokens == {
    <<"W", "h", "e", "n", " ">>, <<"w", "H", "e", "N", " ">>, <<"i", "t", " ">>,
    <<"f", "a", "i", "l">>, <<"u", "r", "e">>, <<"P", "A", "N", "I", "C">>,
    <<" ">>, <<"x">>, <<"Y">>, <<".">> }

RECURSIVE TitlesOfTokens(_)
TitlesOfTokens(n) ==
    IF n = 0 THEN {<<>>}
    ELSE {t \o p : t \in TitlesOfTokens(n - 1), p \in TitleTokens}
\* Titles are not empty once trimmed.
Titles ==
    {t \in UNION {TitlesOfTokens(n) : n \in 1..MaxTokens} : trim(t) # <<>>}

InitNaming ==
    /\ title \in Titles
    /\ slug = <<>>
    /\ unit = NoHir
    /\ pc = "title"
    /\ tree = Root(<<>>)
    /\ cfg = [skip_helpers |-> FALSE, format_descriptions |-> FALSE]
    /\ hir = NoHir
    /\ file = NoFile
    /\ edits = 0
    /\ fix = FALSE
    /\ violations = <<>>
    /\ exit_code = 0
    /\ stdout = FALSE
    /\ printed = <<>>
    /\ eprinted = <<>>
    /\ specs = <<>>
    /\ checked = 0
    /\ ctx = NoHir
    /\ fixed_count = 0

session == <<tree, cfg, hir, file, edits, fix, violations, exit_code, cli>>

\* The Translator names the title.
NameTitle ==
    /\ pc = "title"
    /\ slug' = Translator_to_snake_case(title)
    /\ pc' = "named"
    /\ UNCHANGED <<title, unit, session>>

\* The Translator turns a root-level Action with this title into its
\* TestFunction.
TranslateAction ==
    /\ pc = "named"
    /\ unit' = translate_action(Action(title, <<>>), <<>>, cfg)
    /\ pc' = "translated"
    /\ UNCHANGED <<title, slug, session>>

NextNaming == NameTitle \/ TranslateAction

SpecNaming == InitNaming /\ [][NextNaming]_vars

(***************************************************************************)
(* Vocabulary of the properties                                            *)
(***************************************************************************)
Range(s) == {s[i] : i \in DOMAIN s}
Count(s, x) == Cardinality({i \in DOMAIN s : s[i] = x})

\* A node is addressed by its path: the child indices from the root.
RECURSIVE PathsBelow(_)
PathsBelow(node) ==
    UNION {{<<i>> \o q : q \in {<<>>} \cup PathsBelow(node.children[i])}
           : i \in DOMAIN node.children}
RECURSIVE NodeAt(_, _)
NodeAt(node, p) ==
    IF p = <<>> THEN node ELSE NodeAt(node.children[Head(p)], Tail(p))
ParentPath(p) == SubSeq(p, 1, Len(p) - 1)

ActionPaths(ast) == {p \in PathsBelow(ast) : NodeAt(ast, p).kind = "Action"}
ConditionPaths(ast) == {p \in PathsBelow(ast) : NodeAt(ast, p).kind = "Condition"}

\* Depth-first pre-order: a node before its descendants, a child before
\* the children after it.
Before(p, q) ==
    \E k \in 1..Len(q) :
        /\ k <= Len(p) + 1
        /\ \A j \in 1..(k - 1) : p[j] = q[j]
        /\ (k = Len(p) + 1 \/ p[k] < q[k])
\* Position of p among the paths of S in pre-order.
Rank(S, p) == Cardinality({q \in S : Before(q, p)}) + 1

\* The name the specification gives the test of the Action at path p.
SpecTestName(ast, p) ==
    IF Len(p) >= 2
    THEN <<"t", "e", "s", "t", "_">> \o to_snake_case(NodeAt(ast, ParentPath(p)).title)
         \o <<"_">> \o to_snake_case(NodeAt(ast, p).title)
    ELSE <<"t", "e", "s", "t", "_">> \o to_snake_case(NodeAt(ast, p).title)

HirHelpers(h) == SelectSeq(h.children, LAMBDA n : n.kind = "Helper")
HirModules(h) == SelectSeq(h.children, LAMBDA n : n.kind = "TestModule")
HirTests(h) == HirModules(h)[1].children

\* The title, case-folded, holds one of the failure keywords at some position.
FailureKeywords == {
    <<"p", "a", "n", "i", "c">>, <<"p", "a", "n", "i", "c", "s">>,
    <<"r", "e", "v", "e", "r", "t">>, <<"r", "e", "v", "e", "r", "t", "s">>,
    <<"e", "r", "r", "o", "r">>, <<"e", "r", "r", "o", "r", "s">>,
    <<"f", "a", "i", "l">>, <<"f", "a", "i", "l", "s">> }
HasKeywordSubstring(t) ==
    \E k \in FailureKeywords : \E i \in 1..Len(t) :
        /\ i + Len(k) - 1 <= Len(t)
        /\ SubSeq(to_lowercase(t), i, i + Len(k) - 1) = k

\* What a check of the file would work with.
Checkable == file.exists /\ file.valid /\ find_test_module(file) # <<>>
ExpectedTests == extract_expected_structure(tree, cfg).test_functions
ExpectedIds == [i \in DOMAIN ExpectedTests |-> ExpectedTests[i].name]
ActualTests ==
    SelectSeq(ModuleItems(file),
              LAMBDA it : it.kind = "Fn" /\ \E a \in Range(it.attrs) : a.path = "test")
ActualIds == [i \in DOMAIN ActualTests |-> ActualTests[i].ident]

\* a is an order-preserving subsequence of b (gaps in b allowed).
RECURSIVE IsSubsequence(_, _)
IsSubsequence(a, b) ==
    IF a = <<>> THEN TRUE
    ELSE IF b = <<>> THEN FALSE
    ELSE IF Head(a) = Head(b) THEN IsSubsequence(Tail(a), Tail(b))
    ELSE IsSubsequence(a, Tail(b))

Fixable(v) ==
    v.kind.tag \in {"TestFunctionMissing", "HelperFunctionMissing",
                    "TestAttributeIncorrect", "TestOrderIncorrect"}

(***************************************************************************)
(* Properties                                                              *)
(***************************************************************************)
\* C1: a check of the unmodified file that scaffold wrote for the same tree
\* and config returns no violation.
C1_CheckAfterScaffoldIsClean ==
    (pc = "checked" /\ file = scaffold(tree, cfg)) => violations = <<>>

\* C2: check reports exactly one TestOrderIncorrect when the expected test
\* ids are not an order-preserving subsequence of the actual test ids, and
\* none when they are.  Stated for files in which every expected test
\* exists as often as it is expected, where the order is all that can be
\* wrong.
C2_OrderMismatchIffNotSubsequence ==
    (/\ pc = "checked" /\ Checkable
     /\ \A id \in Range(ExpectedIds) : Count(ExpectedIds, id) <= Count(ActualIds, id))
    => Count(violations, Violation(TestOrderIncorrect))
         = (IF IsSubsequence(ExpectedIds, ActualIds) THEN 0 ELSE 1)

\* C3: after `check --fix` has run, a check of the file it leaves reports no
\* fixable violation.
C3_FixThenCheckHasNoFixable ==
    (pc = "checked" /\ fix)
    => \A order \in IterationOrders(extract_expected_structure(tree, cfg).helpers) :
          \A v \in Range(check(tree, file, cfg, order)) : ~Fixable(v)

\* C4: the HIR holds one TestModule, and in it one TestFunction per Action of
\* the tree, in pre-order of the Actions, each named
\* test_<slug of the innermost enclosing Condition>_<slug of the action> when a
\* Condition encloses the Action and test_<slug of the action> otherwise.
C4_OneTestPerActionInPreOrder ==
    pc = "scaffolded" =>
        /\ Len(HirModules(hir)) = 1
        /\ Len(HirTests(hir)) = Cardinality(ActionPaths(tree))
        /\ \A n \in Range(HirTests(hir)) : n.kind = "TestFunction"
        /\ \A p \in ActionPaths(tree) :
              HirTests(hir)[Rank(ActionPaths(tree), p)].name = SpecTestName(tree, p)

C4_Witness ==
    /\ pc = "scaffolded"
    /\ \E t \in Range(HirTests(hir)) :
          Len(t.helpers) = 2 /\ t.helpers[1] # t.helpers[2]

\* The first Condition of the tree, in pre-order, whose slug is id.
FirstConditionNamed(ast, id) ==
    CHOOSE p \in ConditionPaths(ast) :
        /\ to_snake_case(NodeAt(ast, p).title) = id
        /\ \A q \in ConditionPaths(ast) :
              to_snake_case(NodeAt(ast, q).title) = id => (q = p \/ Before(p, q))

\* C5: unless skip_helpers, the HIR holds exactly one Helper per distinct
\* Condition slug, in order of first occurrence in the pre-order walk, with
\* the title of the first Condition of that slug; Helper names are pairwise
\* distinct.
C5_OneHelperPerDistinctSlug ==
    (pc = "scaffolded" /\ ~cfg.skip_helpers) =>
        LET hs == HirHelpers(hir) IN
        /\ \A i, j \in DOMAIN hs : hs[i].name = hs[j].name => i = j
        /\ {hs[i].name : i \in DOMAIN hs}
             = {to_snake_case(NodeAt(tree, p).title) : p \in ConditionPaths(tree)}
        /\ \A i \in DOMAIN hs :
              hs[i].doc = NodeAt(tree, FirstConditionNamed(tree, hs[i].name)).title
        /\ \A i, j \in DOMAIN hs :
              i < j => Before(FirstConditionNamed(tree, hs[i].name),
                              FirstConditionNamed(tree, hs[j].name))

C5_Witness ==
    /\ pc = "scaffolded" /\ ~cfg.skip_helpers
    /\ \E p, q \in ConditionPaths(tree) :
          /\ NodeAt(tree, p).title = <<"W", "h", "e", "n", " ", "x">>
          /\ NodeAt(tree, q).title = <<"w", "h", "e", "n", " ", "X">>
    /\ Count([i \in DOMAIN HirHelpers(hir) |-> HirHelpers(hir)[i].name], <<"x">>) = 1

\* C6: the TestFunction of an Action carries ShouldPanic exactly when the
\* lower-cased title holds one of panic, panics, revert, reverts, error,
\* errors, fail, fails as a substring (whole word or not).
C6_ShouldPanicIffKeywordSubstring ==
    pc = "translated" =>
        (("ShouldPanic" \in Range(unit.attributes)) <=> HasKeywordSubstring(title))

\* "failure" alone sets it: the keyword is part of a longer word.
C6_Witness ==
    /\ pc = "translated"
    /\ title = <<"f", "a", "i", "l", "u", "r", "e">>
    /\ "ShouldPanic" \in Range(unit.attributes)

\* The first test function of the file that is named id.
FoundTest(id) == Head(SelectSeq(ActualTests, LAMBDA f : f.ident = id))
AttributeMismatches(id) ==
    {i \in DOMAIN violations :
        /\ violations[i].kind.tag = "TestAttributeIncorrect"
        /\ violations[i].kind.function = id}

\* The Action at path p is the only one of the tree with its test name.
UniquelyNamed(p) ==
    \A q \in ActionPaths(tree) : SpecTestName(tree, q) = SpecTestName(tree, p) => q = p

\* C7: for an Action whose title holds a failure keyword as a substring, a
\* check of a file in which the test of that Action exists without
\* #[should_panic] reports exactly one TestAttributeIncorrect for it and no
\* TestFunctionMissing.  Stated for root-level Actions, whose test name the
\* checker and the Translator derive alike.
C7_MissingMarkerIsOneAttributeMismatch ==
    (pc = "checked" /\ Checkable) =>
        \A p \in ActionPaths(tree) :
            LET id == SpecTestName(tree, p) IN
            (/\ Len(p) = 1
             /\ HasKeywordSubstring(NodeAt(tree, p).title)
             /\ UniquelyNamed(p)
             /\ id \in Range(ActualIds)
             /\ \A f \in Range(ActualTests) : f.ident = id => ~has_should_panic(f))
            => /\ Cardinality(AttributeMismatches(id)) = 1
               /\ Violation(TestFunctionMissing(id)) \notin Range(violations)

\* The file with #[should_panic] put on the i-th function of its test module.
WithShouldPanic(f, i) ==
    WithModuleItems(f, [ModuleItems(f) EXCEPT ![i].attrs = Append(@, AttrShouldPanic)])

UnexpectedMarkerAt(p) ==
    /\ Len(p) = 1
    /\ ~HasKeywordSubstring(NodeAt(tree, p).title)
    /\ UniquelyNamed(p)
    /\ SpecTestName(tree, p) \in Range(ActualIds)
    /\ has_should_panic(FoundTest(SpecTestName(tree, p)))

C9_UnexpectedMarkerIsReported ==
    (pc = "checked" /\ Checkable) =>
        \A p \in ActionPaths(tree) :
            UnexpectedMarkerAt(p) =>
               /\ \E v \in Range(violations) :
                     /\ v.kind.tag = "TestAttributeIncorrect"
                     /\ v.kind.function = SpecTestName(tree, p)
               /\ exit_code # 0

ActualHelperIds ==
    {file.items[i].ident : i \in {j \in DOMAIN file.items :
        /\ file.items[j].kind = "Fn"
        /\ \A a \in Range(file.items[j].attrs) : a.path # "test"}}
\* The expected helper ids: the slugs of the Conditions of the tree.
ExpectedHelperIds ==
    {to_snake_case(NodeAt(tree, p).title) : p \in ConditionPaths(tree)}
HelperViolations ==
    SelectSeq(violations, LAMBDA v : v.kind.tag = "HelperFunctionMissing")

\* C11: when skip_helpers is false, a check that gets past the structural
\* blockers reports HelperFunctionMissing(id), once, for exactly the expected
\* helper ids that no helper-like function of the file is named; when
\* skip_helpers is true no check reports a helper violation, whatever the
\* file holds.
C11_HelperMissingIffAbsentUnlessSkipped ==
    pc = "checked" =>
        /\ cfg.skip_helpers => HelperViolations = <<>>
        /\ (~cfg.skip_helpers /\ Checkable) =>
              /\ {v.kind.name : v \in Range(HelperViolations)}
                    = ExpectedHelperIds \ ActualHelperIds
              /\ \A i, j \in DOMAIN HelperViolations :
                    HelperViolations[i] = HelperViolations[j] => i = j

C11_Witness ==
    /\ pc = "checked" /\ Checkable /\ ~cfg.skip_helpers
    /\ edits = 1
    /\ \E id \in ExpectedHelperIds :
          /\ id \notin ActualHelperIds
          /\ Violation(HelperFunctionMissing(id)) \in Range(violations)
    /\ \E id \in ExpectedHelperIds :
          /\ id \in ActualHelperIds
          /\ Violation(HelperFunctionMissing(id)) \notin Range(violations)

\* C12: structural blockers are terminal.  A file that syn rejects gives
\* exactly one RustFileInvalid, a file that parses but has no #[cfg(test)]
\* module exactly one TestModuleMissing, and in both cases nothing else.
C12_StructuralBlockersAreTerminal ==
    (pc = "checked" /\ file.exists) =>
        /\ ~file.valid => violations = <<Violation(RustFileInvalid)>>
        /\ (file.valid /\ find_test_module(file) = <<>>)
              => violations = <<Violation(TestModuleMissing)>>
        /\ Checkable =>
              \A v \in Range(violations) :
                  v.kind.tag \notin {"RustFileInvalid", "TestModuleMissing"}

\* The test module is gone from a file whose tree expects tests:
\* TestModuleMissing is all that is reported.
C12_Witness ==
    /\ pc = "checked" /\ file.exists /\ file.valid
    /\ find_test_module(file) = <<>>
    /\ ExpectedTests # <<>>
    /\ violations = <<Violation(TestModuleMissing)>>

\* C13: when <stem>_test.rs does not exist, check returns exactly one
\* RustFileMissing, none of the structural rules' violations, and the command
\* exits non-zero and writes "Rust test file is missing" to standard error.
C13_MissingFileIsOneViolation ==
    (pc = "checked" /\ ~file.exists) =>
        /\ violations = <<Violation(RustFileMissing)>>
        /\ exit_code # 0
        /\ \E i \in DOMAIN eprinted :
              "Rust test file is missing" \in Range(eprinted[i])
        /\ printed = <<>>

C13_Witness ==
    /\ pc = "checked" /\ ~file.exists
    /\ ExpectedTests # <<>> /\ ExpectedHelperIds # {}
    /\ exit_code = 1


\* The title with one leading keyword (when, given or it, in any letter
\* casing, followed by a space) taken off, if it has one.
LeadingKeywords ==
    {<<"w", "h", "e", "n", " ">>, <<"g", "i", "v", "e", "n", " ">>, <<"i", "t", " ">>}
StripOneKeyword(s) ==
    IF \E k \in LeadingKeywords : starts_with(to_lowercase(s), k)
    THEN LET k == CHOOSE k \in LeadingKeywords : starts_with(to_lowercase(s), k)
         IN  SubSeq(s, Len(k) + 1, Len(s))
    ELSE s
\* Two titles are the same up to letter case and leading keyword.
SameNormalizedTitle(a, b) ==
    to_lowercase(StripOneKeyword(trim(a))) = to_lowercase(StripOneKeyword(trim(b)))

\* C14: the generation path (Translator::to_snake_case) and the checking path
\* (utils::to_snake_case) give every title the same identifier, and any
\* title that differs from it only in letter case or in its leading keyword
\* gets that identifier too.
C14_SlugIgnoresCaseAndKeyword ==
    pc = "named" =>
        /\ slug = to_snake_case(title)
        /\ \A t \in Titles :
              SameNormalizedTitle(t, title) => Translator_to_snake_case(t) = slug

\* C15: the identifier is that of the title with exactly one leading keyword
\* taken off, whatever the casing of the keyword ("wHeN " like "When "), and
\* nothing more taken off the front; so for the Rust naming and for the Noir
\* naming.
C15_StripsOneKeywordAnyCasing ==
    pc = "named" =>
        /\ slug = trim_end_underscores(
                     Translator_snake_loop(StripOneKeyword(trim(title)), 1, <<>>, FALSE))
        /\ noir_to_snake_case(title)
              = noir_split_join(noir_filter_map(StripOneKeyword(trim(title))), <<>>, <<>>)


\* The i-th tree file of the batch produces neither a violation nor a
\* failure: it is read and parsed, and the check of its test file returns
\* Ok with no violation.
FileIsClean(i) ==
    \A order \in EntryOrders(specs[i], cfg) :
        check_tree_path(i, specs[i], cfg, order) = Ok(<<>>)
\* The check of the i-th tree file fails (unreadable or unparseable tree
\* file, unreadable test file).
FileFails(i) ==
    \A order \in EntryOrders(specs[i], cfg) :
        ~check_tree_path(i, specs[i], cfg, order).ok

\* C17: a check without --fix exits 0 and prints the success message exactly
\* when no tree file of the batch produced a violation or a failure; in every
\* other case it exits non-zero.
C17_ExitZeroIffBatchClean ==
    (pc = "checked" /\ ~fix) =>
        /\ (exit_code = 0 /\ printed = <<<<SUCCESS_MESSAGE>>>>)
              <=> \A i \in DOMAIN specs : FileIsClean(i)
        /\ (\E i \in DOMAIN specs : ~FileIsClean(i)) => exit_code # 0

\* The violations recorded for the test file of the i-th tree file.
ViolationsOf(i) == SelectSeq(violations, LAMBDA v : v.file_path = rust_path(i))
\* The failures recorded for the i-th tree file.
FailuresOf(i) ==
    SelectSeq(eprinted, LAMBDA l : l[1] = "error: Failed to check " /\ l[2] = tree_path(i))

\* C20: the batch runs to completion.  The loop never stops before the last
\* tree file; a tree file whose check fails leaves one failure line of its
\* own and no violation, and every tree file gone through, the later ones
\* included, has the violations recorded that a check of it alone returns.
C20_BatchRunsToCompletion ==
    /\ pc = "collecting" => checked <= Len(specs)
    /\ pc = "checked" => checked = Len(specs)
    /\ pc \in {"collecting", "checked"} =>
          \A i \in 1..Len(specs) :
              IF i > checked THEN ViolationsOf(i) = <<>> /\ FailuresOf(i) = <<>>
              ELSE IF FileFails(i)
                   THEN ViolationsOf(i) = <<>> /\ Len(FailuresOf(i)) = 1
                   ELSE /\ FailuresOf(i) = <<>>
                        /\ \E order \in EntryOrders(specs[i], cfg) :
                              ViolationsOf(i)
                                = check_tree_path(i, specs[i], cfg, order).violations

\* The first tree file cannot be read, the second is checked all the same
\* and its violation recorded.
C20_Witness ==
    /\ pc = "checked"
    /\ Len(specs) = 2
    /\ FileFails(1)
    /\ ~FileFails(2) /\ ViolationsOf(2) # <<>>
    /\ exit_code = 1

\* C19: a `check --fix` run that finds a fixable violation in the test file
\* rewrites the file, or with --stdout prints the repaired file to standard
\* output.
C19_FixRewritesTheFile ==
    [][(pc' = "checked" /\ fix' /\ \E v \in Range(violations') : Fixable(v))
        => IF stdout' THEN printed' # <<>> ELSE file' # file]_vars


\* Position of id in the sequence ids (which holds it once).
IndexIn(ids, id) == CHOOSE k \in DOMAIN ids : ids[k] = id

\* after is before rearranged: the expected ids first, in expected order,
\* then the other declarations in the order they had; nothing added,
\* dropped or duplicated.
IsExpectedFirstPermutation(expected, before, after) ==
    /\ Len(after) = Len(before)
    /\ \A id \in Range(before) \cup Range(after) : Count(after, id) = Count(before, id)
    /\ \A i, j \in DOMAIN after :
          i < j =>
             LET x == after[i]
                 y == after[j]
             IN  /\ declares(expected, y) => declares(expected, x)
                 /\ (declares(expected, x) /\ declares(expected, y))
                       => IndexIn(expected, x) < IndexIn(expected, y)
                 /\ (~declares(expected, x) /\ ~declares(expected, y))
                       => IndexIn(before, x) < IndexIn(before, y)

BrokenContexts == {i \in DOMAIN specs : ~specs[i].ok}
\* The fixes reported as failed.
FailedFixes == SelectSeq(eprinted, LAMBDA l : l[1] = "unable to fix ")
\* The files as the run left them still have violations.
ViolationsRemain == check_all(ctxs_of(specs)) # <<>>

\* C18: a `check --fix` run exits non-zero when a violation is left
\* unresolved: a Context could not be built, a fix failed to apply, or a file
\* written back still has a violation.
C18_FixExitsNonZeroWhenUnresolved ==
    (pc = "checked" /\ fix) =>
        ((\/ BrokenContexts # {}
          \/ FailedFixes # <<>>
          \/ (~stdout /\ ViolationsRemain))
         => exit_code # 0)


\* C21: without --fix, check writes no file: no step of a run in default
\* mode changes a tree file or a test file, whatever violations it finds.
C21_DefaultModeWritesNothing ==
    [][~fix' => UNCHANGED <<specs, file, tree>>]_vars

\* A default-mode run has reported a fixable violation, and the file still
\* has it.
C21_Witness ==
    /\ pc = "checked" /\ ~fix
    /\ exit_code = 1
    /\ \E v \in Range(violations) : is_fixable(v)
    /\ violations = check_all(ctxs_of(specs))


\* The tests of a HIR: names and expect-failure flags, in order.
TestUnits(h) ==
    [i \in DOMAIN HirTests(h) |->
        <<HirTests(h)[i].name, "ShouldPanic" \in Range(HirTests(h)[i].attributes)>>]

\* C22: with skip_helpers set, translate emits no Helper, and still the
\* Context as first child and exactly one TestModule; the tests' names, order
\* and expect-failure flags are those produced with skip_helpers unset.
C22_SkipHelpersOnlyDropsHelpers ==
    pc = "scaffolded" =>
        /\ hir.children[1] = HirContext
        /\ Len(HirModules(hir)) = 1
        /\ Len(hir.children) = 2 + Len(HirHelpers(hir))
        /\ cfg.skip_helpers => HirHelpers(hir) = <<>>
        /\ TestUnits(hir)
             = TestUnits(translate(tree, [cfg EXCEPT !.skip_helpers = FALSE]))

\* Helpers are skipped for a tree that has Conditions, and an Action below a
\* Condition expects failure.
C22_Witness ==
    /\ pc = "scaffolded" /\ cfg.skip_helpers
    /\ HirHelpers(translate(tree, [cfg EXCEPT !.skip_helpers = FALSE])) # <<>>
    /\ \E i \in DOMAIN HirTests(hir) :
          /\ HirTests(hir)[i].helpers # <<>>
          /\ TestUnits(hir)[i][2]


\* C23: the expected tests the checker derives from the tree (names and
\* expect-failure flags, in order) are the tests the Translator produces for
\* the same tree and config: one per Action, same names, same order, same
\* flags.
C23_CheckerExpectsTranslatorTests ==
    pc = "scaffolded" =>
        [i \in DOMAIN ExpectedTests |->
            <<ExpectedTests[i].name, ExpectedTests[i].should_panic>>]
          = TestUnits(hir)


\* The check of the document as it was read, before any fix.
InitialCheck == StructuralMatcher_check(Context(ctx.index, specs[ctx.index]))
\* The check of the working document.
FreshCheck == StructuralMatcher_check(ctx)

\* C24: in fix mode the order repair comes after every non-order fix has
\* been attempted (no step of the first pass moves a declaration), and it is
\* driven by a fresh check of the document as the first pass left it: the
\* container is rewritten when that check holds an OrderMismatch and left as
\* it is otherwise, whatever the initial check reported.
C24_OrderRepairFollowsFreshCheck ==
    [][/\ (pc = "first_pass" /\ pc' = "first_pass")
            => SubSeq(ctx'.pt.fns, 1, Len(ctx.pt.fns)) = ctx.pt.fns
       /\ (pc = "first_pass" /\ pc' = "write")
            => /\ ctx.pending = <<>>
               /\ IF \E v \in Range(FreshCheck) : is_order(v)
                  THEN IsExpectedFirstPermutation(ctx.hir, ctx.pt.fns, ctx'.pt.fns)
                  ELSE ctx'.pt = ctx.pt]_vars

\* Expected [a, b, c], file [a, setup, b]: the initial check holds an
\* OrderMismatch, the check after c is inserted holds none, and the document
\* to be written is [a, setup, b, c], not reordered.
C24_Witness ==
    /\ pc = "write"
    /\ \E v \in Range(InitialCheck) : is_order(v)
    /\ specs[ctx.index].pt.fns = <<"a", "setup", "b">>
    /\ ctx.pt.fns = <<"a", "setup", "b", "c">>


\* C25: the order repair is applied only to a document in which no
\* MissingArtifact remains: when the check that opens the second pass still
\* reports an expected unit as missing (its insert failed in the first
\* pass), the second pass leaves the document as it is.
C25_ReorderOnlyWhenComplete ==
    [][(/\ pc = "first_pass" /\ pc' = "write"
        /\ \E v \in Range(FreshCheck) : v.kind.tag = "MissingArtifact")
       => ctx'.pt = ctx.pt]_vars


\* The fix of v is reported as failed.
ReportedAsFailed(v) == \E i \in DOMAIN FailedFixes : FailedFixes[i][2] = v
\* Every non-order violation of the initial check has had its fix attempted:
\* the unit is in the working document, or the failure is reported.
AllFixesAttempted ==
    \A v \in Range(InitialCheck) :
        ~is_order(v) =>
            \/ v.kind.tag = "MissingArtifact" /\ declares(ctx.pt.fns, v.kind.id)
            \/ ReportedAsFailed(v)

\* C26: in the first pass a fix that fails leaves the working document as it
\* was and is reported; a fix that succeeds works on the document the fixes
\* before it left; and the pass goes on to the end: when it is over every
\* non-order fix has been attempted.
C26_FailedFixIsSkipped ==
    [][/\ (pc = "first_pass" /\ pc' = "first_pass")
            => IF eprinted' # eprinted
               THEN /\ ctx'.pt = ctx.pt
                    /\ Len(eprinted') = Len(eprinted) + 1
                    /\ eprinted'[Len(eprinted')][1] = "unable to fix "
                    /\ eprinted'[Len(eprinted')][2] = Head(ctx.pending)
               ELSE ctx'.pt.fns = Append(ctx.pt.fns, Head(ctx.pending).kind.id)
       /\ (pc = "first_pass" /\ pc' = "write") => AllFixesAttempted]_vars

\* Expected [a, b, c], empty contract: the insert of a fails, those of b and
\* c are made all the same.
C26_Witness ==
    /\ pc = "write"
    /\ specs[ctx.index].pt.fns = <<>>
    /\ Len(FailedFixes) = 1
    /\ FailedFixes[1][2].kind = MissingArtifact("a")
    /\ ctx.pt.fns = <<"b", "c">>


\* The fixable violations of the initial check that the document about to be
\* written no longer has.
RepairedCount ==
    Len(SelectSeq(InitialCheck,
            LAMBDA v : is_fixable(v) /\ ~\E w \in Range(FreshCheck) : w = v))

\* C27: the count of fixed issues grows, for each file, by the number of
\* violations that were repaired in it: a fixable violation whose fix failed
\* to apply, and that a check of the written document still reports, is not
\* counted; and the count printed at the end is that count.
C27_FixedCountIsRepairedCount ==
    [][/\ (pc = "write" /\ pc' = "fix_loop")
            => fixed_count' = fixed_count + RepairedCount
       /\ (pc = "fix_loop" /\ pc' = "checked")
            => printed'[Len(printed')][2] = ToString(fixed_count)]_vars


\* A token with its non-alphanumeric characters removed, lower-cased.
CleanToken(w) == to_lowercase(SelectSeq(w, is_alphanumeric))
RECURSIVE JoinTokens(_)
JoinTokens(ws) ==
    IF ws = <<>> THEN <<>>
    ELSE IF Len(ws) = 1 THEN ws[1]
    ELSE ws[1] \o <<"_">> \o JoinTokens(Tail(ws))
\* The whitespace-delimited tokens of s that hold an alphanumeric character,
\* cleaned, joined by single '_'.
SlugOfTokens(s) ==
    LET ws == split_whitespace(s)
        cleaned == [i \in DOMAIN ws |-> CleanToken(ws[i])]
    IN  JoinTokens(SelectSeq(cleaned, LAMBDA w : w # <<>>))

\* C28: a slug is the cleaned tokens of the keyword-stripped title joined by
\* single '_': lower-case letters and digits only between the separators, no
\* leading, trailing or doubled '_', no two tokens fused, no token split.
\* Stated for titles that have no leading keyword, where nothing is to be
\* stripped; so for the Rust naming and for the Noir naming.
C28_SlugIsJoinedTokens ==
    (pc = "named" /\ StripOneKeyword(trim(title)) = trim(title)) =>
        /\ slug = SlugOfTokens(trim(title))
        /\ noir_to_snake_case(title) = SlugOfTokens(trim(title))


\* C29: check is deterministic: the violations recorded for a tree file are
\* the ones any run of check on the same tree, test file and config returns,
\* in the same order, the missing-helper violations included.
C29_CheckIsDeterministic ==
    pc \in {"collecting", "checked"} =>
        \A i \in 1..checked :
            \A order \in EntryOrders(specs[i], cfg) :
                LET r == check_tree_path(i, specs[i], cfg, order)
                IN  r.ok => ViolationsOf(i) = r.violations


\* C30: with skip_helpers unset, the set of helper ids the checker expects
\* for a tree is the set of the names of the Helpers the Translator emits
\* for it.
C30_HelperIdSetsAgree ==
    (pc = "scaffolded" /\ ~cfg.skip_helpers) =>
        {HirHelpers(hir)[i].name : i \in DOMAIN HirHelpers(hir)}
          = extract_expected_structure(tree, cfg).helpers

\* A tree with a Condition below a Condition, of different slugs.
C30_Witness ==
    /\ pc = "scaffolded" /\ ~cfg.skip_helpers
    /\ \E p \in ConditionPaths(tree) :
          /\ Len(p) = 2
          /\ to_snake_case(NodeAt(tree, p).title)
                # to_snake_case(NodeAt(tree, ParentPath(p)).title)
    /\ Len(HirHelpers(hir)) = 2

====
